---- MODULE Spec2Model ----
(***************************************************************************)
(* Model of the Resources registry (src/src/resources.ts) with its         *)
(* extension table (types.ts) and decoder tables (src/src/loaders.ts).     *)
(*                                                                         *)
(* Strings whose characters the code inspects (filenames, names, paths,    *)
(* extensions) are sequences of one-character strings.  Entry objects live *)
(* in `heap` and are referred to by their index, because load() keeps      *)
(* references to the entry objects it snapshotted while add() may replace  *)
(* the object stored under a name.                                         *)
(***************************************************************************)
EXTENDS Integers, Sequences, FiniteSets, TLC

VARIABLES basePath, keys, resources, heap, events, cbs, loads, ret

vars == <<basePath, keys, resources, heap, events, cbs, loads, ret>>

\* The registry proper: what add/get/getLazy/load read and write.
registry == <<keys, resources, heap>>

-----------------------------------------------------------------------------
(* Bounds of the model                                                     *)

\* successful add() calls (entry objects ever created)
MaxEntries == 2
\* load() calls
MaxLoads == 1
\* callbacks ever registered through onLoaded (getLazy's included)
MaxCallbacks == 2
\* load() calls made in the re-load specification
MaxReloads == 2
\* callbacks registered in the re-load specification
MaxListeners == 3

-----------------------------------------------------------------------------
(* Strings                                                                 *)

Dot == "."
Slash == "/"

\* String.prototype.lastIndexOf for a one-character needle: 0-based, -1 if absent
LastIndexOf(s, c) ==
  LET hits == {i \in 1..Len(s) : s[i] = c}
  IN IF hits = {} THEN -1
     ELSE (CHOOSE i \in hits : \A j \in hits : j <= i) - 1

\* String.prototype.substring(from, to) with 0 <= from <= to <= length
Substring(s, from, to) == SubSeq(s, from + 1, to)

\* String.prototype.substring(from)
SubstringFrom(s, from) == SubSeq(s, from + 1, Len(s))

\* basePath.replace(/\/+$/, "")
RECURSIVE StripTrailingSlashes(_)
StripTrailingSlashes(s) ==
  IF Len(s) > 0 /\ s[Len(s)] = Slash
  THEN StripTrailingSlashes(SubSeq(s, 1, Len(s) - 1))
  ELSE s

-----------------------------------------------------------------------------
(* Inputs                                                                  *)

F_a_json == <<"a", ".", "j", "s", "o", "n">>
F_b_glb == <<"b", ".", "g", "l", "b">>
F_a_txt == <<"a", ".", "t", "x", "t">>

N_a == <<"a">>
N_b == <<"b">>
N_toString == <<"t", "o", "S", "t", "r", "i", "n", "g">>

\* constructor arguments
BasePaths == {<<"r">>, <<"r", "/">>, <<"r", "/", "/">>}

\* add(filename, engine) calls of the main specification
AddInputs ==
  { <<F_a_json, "pixi">>, <<F_b_glb, "three">>, <<F_a_txt, "pixi">> }

\* add(filename) calls of the declaration specification: every mapped
\* extension, unmapped ones, an inherited key as extension, no dot, a
\* leading dot, several dots, a trailing dot, upper case
DeclareFilenames ==
  { F_a_json, F_b_glb, F_a_txt,
    <<"a", ".", "g", "l", "t", "f">>, <<"a", ".", "p", "n", "g">>,
    <<"a", ".", "j", "p", "g">>, <<"a", ".", "j", "p", "e", "g">>,
    <<"a", ".", "w", "e", "b", "p">>, <<"a", ".", "h", "d", "r">>,
    <<"a", ".", "P", "N", "G">>, <<"a", ".">>, <<"g", "l", "b">>,
    <<".", "p", "n", "g">>, <<"a", ".", "b", ".", "p", "n", "g">>,
    <<"a", ".", "p", "n", "g", ".", "t", "x", "t">>,
    <<"a", ".", "t", "o", "S", "t", "r", "i", "n", "g">> }

Engines == {"pixi", "three"}

\* add(filename, engine) calls of the re-load specification
ReloadInputs == {<<F_a_json, "pixi">>}

\* add(filename, engine) calls, names passed to get and onProgress
\* arguments of the overlap specification
OverlapInputs == {<<F_a_json, "pixi">>, <<F_b_glb, "three">>}
OverlapNames == {N_a, N_b}
OverlapCallbacks == {"none", "returns"}

\* names passed to get / getLazy
LookupNames == {N_a, N_b, N_toString}

\* names passed to onLoaded
ListenNames == {N_a}

\* the onProgress argument of load(): absent, a callback that returns,
\* a callback that throws
ProgressCallbacks == {"none", "returns", "throws"}

-----------------------------------------------------------------------------
(* types.ts: extensionMap; loaders.ts: the decoder tables                  *)

extensionMap ==
  (<<"g", "l", "b">> :> "model") @@
  (<<"g", "l", "t", "f">> :> "model") @@
  (<<"p", "n", "g">> :> "texture") @@
  (<<"j", "p", "g">> :> "texture") @@
  (<<"j", "p", "e", "g">> :> "texture") @@
  (<<"w", "e", "b", "p">> :> "texture") @@
  (<<"h", "d", "r">> :> "environment") @@
  (<<"j", "s", "o", "n">> :> "json")

\* Property names every plain object inherits from Object.prototype (one
\* representative); the inherited value is a function whose own `name`
\* property is the key, and which has no `loaded` and no `resource`.
ObjectPrototypeKeys == {N_toString}

\* extensionMap[extension]: own property, inherited property, or undefined
ExtensionLookup(extension) ==
  IF extension \in DOMAIN extensionMap THEN extensionMap[extension]
  ELSE IF extension \in ObjectPrototypeKeys THEN "function"
  ELSE "undefined"

loaders ==
  [model |-> "ModelLoader", texture |-> "TextureLoader",
   environment |-> "EnvironmentLoader", json |-> "JsonLoader"]

threeLoaders ==
  [model |-> "ModelLoader", texture |-> "ThreeTextureLoader",
   environment |-> "EnvironmentLoader", json |-> "JsonLoader"]

\* a decoder selection that ignores the engine
SelectLoader_DefaultTable(entry) ==
  IF entry.type \in DOMAIN loaders THEN loaders[entry.type] ELSE "undefined"

\* (engine === "three" ? threeLoaders : loaders)[entry.type]
SelectLoader(entry) ==
  LET loaderSet == IF entry.engine = "three" THEN threeLoaders ELSE loaders
  IN IF entry.type \in DOMAIN loaderSet THEN loaderSet[entry.type]
     ELSE "undefined"

\* What a decoder can resolve with.  "falsy" stands for the JSON documents
\* null, 0, false and "", which JsonValue admits; the others are object
\* instances, equal exactly when they are the same instance.
LoaderResults(loader) ==
  CASE loader = "ModelLoader" -> {"gltf1", "gltf2"}
    [] loader = "TextureLoader" -> {"pixiTexture1"}
    [] loader = "ThreeTextureLoader" -> {"threeTexture1"}
    [] loader = "EnvironmentLoader" -> {"dataTexture1"}
    [] loader = "JsonLoader" -> {"falsy", "json1"}
    [] OTHER -> {}

\* JavaScript truthiness of a resource slot
Truthy(resource) == resource \notin {"undefined", "falsy"}

-----------------------------------------------------------------------------
(* State after construction                                                *)

EmptyMap == [n \in {} |-> 0]

NoCall ==
  [op |-> "none", arg |-> <<>>, kind |-> "none", val |-> "undefined",
   detail |-> <<>>, cb |-> 0]

Init ==
  /\ basePath \in {StripTrailingSlashes(b) : b \in BasePaths}
  /\ keys = <<>>
  /\ resources = EmptyMap
  /\ heap = <<>>
  /\ events = EmptyMap
  /\ cbs = <<>>
  /\ loads = <<>>
  /\ ret = NoCall

-----------------------------------------------------------------------------
(* Errors and results of the synchronous calls                             *)

\* `Unsupported file extension: .${extension}`
UnsupportedExtension(filename, extension) ==
  [op |-> "add", arg |-> filename, kind |-> "UnsupportedExtension",
   val |-> "undefined", detail |-> extension, cb |-> 0]

\* `Resource '${name}' not found. Did you add it to the resources?`
NotFound(op, name) ==
  [op |-> op, arg |-> name, kind |-> "NotFound", val |-> "undefined",
   detail |-> name, cb |-> 0]

\* `Resource '${name}' not loaded yet. Call load() first.`
NotLoaded(op, name) ==
  [op |-> op, arg |-> name, kind |-> "NotLoaded", val |-> "undefined",
   detail |-> name, cb |-> 0]

Returned(op, arg, val) ==
  [op |-> op, arg |-> arg, kind |-> "returned", val |-> val,
   detail |-> <<>>, cb |-> 0]

\* Promise.resolve(resource)
ResolvedPromise(name, val) ==
  [op |-> "getLazy", arg |-> name, kind |-> "resolvedPromise", val |-> val,
   detail |-> <<>>, cb |-> 0]

\* new Promise(resolve => onLoaded(..., resolve)): settled by callback cb
PendingPromise(name, cb) ==
  [op |-> "getLazy", arg |-> name, kind |-> "pendingPromise",
   val |-> "undefined", detail |-> <<>>, cb |-> cb]

-----------------------------------------------------------------------------
(* add                                                                     *)

\* resources.ts:68-69
NameOf(filename) ==
  LET dotIndex == LastIndexOf(filename, Dot)
  IN IF dotIndex > 0 THEN Substring(filename, 0, dotIndex) ELSE filename

\* resources.ts:70
ExtensionOf(filename) ==
  SubstringFrom(filename, LastIndexOf(filename, Dot) + 1)

\* resources.ts:71
TypeOf(filename) == ExtensionLookup(ExtensionOf(filename))

\* resources.ts:74-81
NewEntry(filename, engine) ==
  [name |-> NameOf(filename),
   filename |-> filename,
   type |-> TypeOf(filename),
   engine |-> engine,
   path |-> basePath \o <<Slash>> \o filename,
   loaded |-> FALSE,
   resource |-> "undefined"]

\* resources.ts:72: if (!type) throw
AddThrows(filename) == TypeOf(filename) = "undefined"

\* an add in the style of an immutable builder: the receiver is left as
\* it was and the enlarged registry is a new instance
Add_ReturnsCopy(filename, engine) ==
  IF AddThrows(filename)
  THEN /\ ret' = UnsupportedExtension(filename, ExtensionOf(filename))
       /\ UNCHANGED <<basePath, keys, resources, heap, events, cbs, loads>>
  ELSE /\ ret' = Returned("add", filename, "copy")
       /\ UNCHANGED <<basePath, keys, resources, heap, events, cbs, loads>>

\* an add that carries the resolved state of the declaration it replaces
\* over to the new one
Add_KeepsResolved(filename, engine) ==
  IF AddThrows(filename)
  THEN /\ ret' = UnsupportedExtension(filename, ExtensionOf(filename))
       /\ UNCHANGED <<basePath, keys, resources, heap, events, cbs, loads>>
  ELSE LET newEntry == NewEntry(filename, engine)
           name == newEntry.name
           id == Len(heap) + 1
           kept == IF name \in DOMAIN resources
                   THEN [newEntry EXCEPT !.loaded = heap[resources[name]].loaded,
                                         !.resource = heap[resources[name]].resource]
                   ELSE newEntry
       IN /\ heap' = Append(heap, kept)
          /\ resources' = (name :> id) @@ resources
          /\ keys' = IF name \in DOMAIN resources THEN keys ELSE Append(keys, name)
          /\ ret' = Returned("add", filename, "this")
          /\ UNCHANGED <<basePath, events, cbs, loads>>

\* resources.ts:64-87
Add(filename, engine) ==
  IF AddThrows(filename)
  THEN /\ ret' = UnsupportedExtension(filename, ExtensionOf(filename))
       /\ UNCHANGED <<basePath, keys, resources, heap, events, cbs, loads>>
  ELSE LET newEntry == NewEntry(filename, engine)
           name == newEntry.name
           id == Len(heap) + 1
       IN /\ heap' = Append(heap, newEntry)
          /\ resources' = (name :> id) @@ resources
          /\ keys' = IF name \in DOMAIN resources THEN keys ELSE Append(keys, name)
          /\ ret' = Returned("add", filename, "this")
          /\ UNCHANGED <<basePath, events, cbs, loads>>

\* get names(): Object.keys(this.resources)
names == keys

-----------------------------------------------------------------------------
(* get, getLazy, onLoaded                                                  *)

Undefined == [defined |-> FALSE, name |-> <<>>, loaded |-> FALSE, resource |-> "undefined"]

\* this.resources[name]: the entry stored under the name, else the member
\* the object inherits under that name, else undefined
Lookup(name) ==
  IF name \in DOMAIN resources
  THEN LET entry == heap[resources[name]]
       IN [defined |-> TRUE, name |-> entry.name, loaded |-> entry.loaded,
           resource |-> entry.resource]
  ELSE IF name \in ObjectPrototypeKeys
  THEN [defined |-> TRUE, name |-> name, loaded |-> FALSE, resource |-> "undefined"]
  ELSE Undefined

\* get without the not-loaded guard of line 106
GetResult_Unguarded(name) ==
  LET entry == Lookup(name)
  IN IF ~entry.defined THEN NotFound("get", name)
     ELSE Returned("get", name, entry.resource)

\* resources.ts:99-112
GetResult(name) ==
  LET entry == Lookup(name)
  IN IF ~entry.defined THEN NotFound("get", name)
     ELSE IF ~entry.loaded \/ ~Truthy(entry.resource) THEN NotLoaded("get", name)
     ELSE Returned("get", name, entry.resource)

Get(name) ==
  /\ ret' = GetResult(name)
  /\ UNCHANGED <<basePath, keys, resources, heap, events, cbs, loads>>

\* resources.ts:35-46, as the new value of `events`
OnLoadedEvents(name, cb) ==
  IF name \in DOMAIN events
  THEN [events EXCEPT ![name] = Append(@, cb)]
  ELSE (name :> <<cb>>) @@ events

\* The entry object a name is bound to at the moment a callback is
\* registered under it (0: none); the code keeps no such record, the
\* callbacks are stored by name only.
DeclarationOf(name) == IF name \in DOMAIN resources THEN resources[name] ELSE 0

\* a callback registered by getLazy: resolves the promise it belongs to.
\* `name` is the key it is registered under; `unloaded` records that the
\* name was a declared, not yet loaded entry when the promise was made;
\* `decl` is the entry object the name was bound to then; `at` is the
\* position of its last invocation among all callback invocations.
LazyCallback(name, unloaded, decl) ==
  [kind |-> "lazy", name |-> name, throws |-> FALSE, calls |-> 0,
   state |-> "pending", value |-> "undefined", unloaded |-> unloaded,
   decl |-> decl, at |-> 0]

\* a callback registered directly through the public onLoaded
UserCallback(name, throws, decl) ==
  [kind |-> "user", name |-> name, throws |-> throws, calls |-> 0,
   state |-> "none", value |-> "undefined", unloaded |-> FALSE,
   decl |-> decl, at |-> 0]

OnLoaded(name, throws) ==
  /\ cbs' = Append(cbs, UserCallback(name, throws, DeclarationOf(name)))
  /\ events' = OnLoadedEvents(name, Len(cbs) + 1)
  /\ ret' = Returned("onLoaded", name, "undefined")
  /\ UNCHANGED <<basePath, keys, resources, heap, loads>>

\* resources.ts:126: the already-loaded shortcut
LazyShortcut(entry) == entry.loaded /\ Truthy(entry.resource)

\* resources.ts:119-141
GetLazy(name) ==
  LET entry == Lookup(name)
  IN IF ~entry.defined
     THEN /\ ret' = NotFound("getLazy", name)
          /\ UNCHANGED <<basePath, keys, resources, heap, events, cbs, loads>>
     ELSE IF LazyShortcut(entry)
     THEN /\ ret' = ResolvedPromise(name, entry.resource)
          /\ UNCHANGED <<basePath, keys, resources, heap, events, cbs, loads>>
     ELSE /\ cbs' = Append(cbs, LazyCallback(entry.name,
                    name \in DOMAIN resources /\ ~entry.loaded,
                    DeclarationOf(name)))
          /\ events' = OnLoadedEvents(entry.name, Len(cbs) + 1)
          /\ ret' = PendingPromise(name, Len(cbs) + 1)
          /\ UNCHANGED <<basePath, keys, resources, heap, loads>>

-----------------------------------------------------------------------------
(* load                                                                    *)

NoError == [filename |-> <<>>, cause |-> "none"]

\* new Error(`Failed to load resource '${entry.filename}'`, { cause })
LoadFailure(entry, cause) == [filename |-> entry.filename, cause |-> cause]

\* a snapshot with one item per add call, each resolved to the entry its
\* name is bound to now
Snapshot_PerAdd == [i \in 1..Len(heap) |-> resources[heap[i].name]]

\* Object.values(this.resources), as references to the entry objects
Snapshot == [i \in 1..Len(keys) |-> resources[keys[i]]]

\* loader.load(entry.path) can be called: the table has a decoder for the type
HasLoader(entry) == SelectLoader(entry) # "undefined"

\* a Promise.all whose rejection reason is overwritten by later rejections
AllAfterFailure_LastWins(load, error) ==
  [load EXCEPT !.all = "rejected", !.error = error]

\* The outcome of Promise.all after the task at index i has failed with
\* `error`: the first rejection settles it, later ones are ignored.
AllAfterFailure(load, error) ==
  IF load.all = "pending"
  THEN [load EXCEPT !.all = "rejected", !.error = error]
  ELSE load

\* The outcome of Promise.all after a task has succeeded: fulfilled once
\* every task has.
AllAfterSuccess(load) ==
  IF load.all = "pending" /\ \A i \in DOMAIN load.tasks : load.tasks[i] = "ok"
  THEN [load EXCEPT !.all = "fulfilled"]
  ELSE load

\* Tasks whose decoder lookup yields undefined throw inside the try block
\* before their first await, in index order while load() is being called.
RECURSIVE FailStart(_, _)
FailStart(load, i) ==
  IF i > Len(load.entries) THEN load
  ELSE IF HasLoader(heap[load.entries[i]]) THEN FailStart(load, i + 1)
  ELSE FailStart(
         AllAfterFailure(
           [load EXCEPT !.tasks[i] = "noLoader", !.order = Append(@, i)],
           LoadFailure(heap[load.entries[i]], "TypeError")),
         i + 1)

\* loader.load(entry.path): the decoder called and the path it is given;
\* no call is made when the table has no decoder for the type
DecodeRequest(entry) ==
  IF HasLoader(entry)
  THEN [loader |-> SelectLoader(entry), path |-> entry.path]
  ELSE [loader |-> "undefined", path |-> <<>>]

\* resources.ts:147-165, up to the first suspension.  `after` records the
\* earlier load() calls whose promise had settled when this call was made
\* (the calls this one does not overlap); the code keeps no such record.
StartedLoad(onProgress) ==
  LET entries == Snapshot
      fresh == [entries |-> entries,
                after |-> {K \in DOMAIN loads : loads[K].status # "pending"},
                requests |-> [i \in 1..Len(entries) |-> DecodeRequest(heap[entries[i]])],
                total |-> Len(entries),
                loaded |-> 0,
                onProgress |-> onProgress,
                tasks |-> [i \in 1..Len(entries) |-> "inflight"],
                order |-> <<>>,
                all |-> "pending",
                error |-> NoError,
                status |-> "pending",
                progress |-> <<>>]
  IN AllAfterSuccess(FailStart(fresh, 1))

\* a load() that resets the entries it is about to decode
Load_ResetsEntries(onProgress) ==
  /\ loads' = Append(loads, StartedLoad(onProgress))
  /\ heap' = [id \in DOMAIN heap |->
                IF \E i \in 1..Len(Snapshot) : Snapshot[i] = id
                THEN [heap[id] EXCEPT !.loaded = FALSE, !.resource = "undefined"]
                ELSE heap[id]]
  /\ ret' = Returned("load", <<>>, "promise")
  /\ UNCHANGED <<basePath, keys, resources, events, cbs>>

Load(onProgress) ==
  /\ loads' = Append(loads, StartedLoad(onProgress))
  /\ ret' = Returned("load", <<>>, "promise")
  /\ UNCHANGED <<basePath, keys, resources, heap, events, cbs>>

\* the number of callback invocations made so far
RECURSIVE Invocations(_)
Invocations(c) == IF c = 0 THEN 0 ELSE cbs[c].calls + Invocations(c - 1)

\* callback(resource) for one listener, as invocation number `at`
Call(cb, resource, at) ==
  [cb EXCEPT !.calls = @ + 1,
             !.at = at,
             !.state = IF cb.kind = "lazy" THEN "resolved" ELSE @,
             !.value = IF cb.kind = "lazy" /\ cb.state = "pending"
                       THEN resource ELSE @]

\* an emitLoaded that walks the list of callbacks from its end
EmitLoaded_Backwards(name, resource) ==
  IF name \notin DOMAIN events
  THEN [cbs |-> cbs, events |-> events, threw |-> FALSE]
  ELSE LET listeners == events[name]
           throwers == {k \in 1..Len(listeners) : cbs[listeners[k]].throws}
           first == IF throwers = {} THEN 1
                    ELSE CHOOSE k \in throwers : \A j \in throwers : k >= j
           called == {listeners[k] : k \in first..Len(listeners)}
           turn(c) == CHOOSE k \in first..Len(listeners) : listeners[k] = c
       IN [cbs |-> [c \in DOMAIN cbs |->
                      IF c \in called
                      THEN Call(cbs[c], resource,
                                Invocations(Len(cbs)) + Len(listeners) + 1 - turn(c))
                      ELSE cbs[c]],
           events |-> IF throwers = {}
                      THEN [n \in DOMAIN events \ {name} |-> events[n]]
                      ELSE events,
           threw |-> throwers # {}]

\* resources.ts:48-56: the callbacks are called in order; one that throws
\* ends the loop and leaves the list in place
EmitLoaded(name, resource) ==
  IF name \notin DOMAIN events
  THEN [cbs |-> cbs, events |-> events, threw |-> FALSE]
  ELSE LET listeners == events[name]
           throwers == {k \in 1..Len(listeners) : cbs[listeners[k]].throws}
           last == IF throwers = {} THEN Len(listeners)
                   ELSE CHOOSE k \in throwers : \A j \in throwers : k <= j
           called == {listeners[k] : k \in 1..last}
           turn(c) == CHOOSE k \in 1..last : listeners[k] = c
       IN [cbs |-> [c \in DOMAIN cbs |->
                      IF c \in called
                      THEN Call(cbs[c], resource, Invocations(Len(cbs)) + turn(c))
                      ELSE cbs[c]],
           events |-> IF throwers = {}
                      THEN [n \in DOMAIN events \ {name} |-> events[n]]
                      ELSE events,
           threw |-> throwers # {}]

\* an updateProgress that reports the number of entries registered now
\* as the total
ProgressEvent_CurrentTotal(load, entryName, resource) ==
  [total |-> Len(keys),
   loaded |-> load.loaded,
   percentage |-> IF Len(keys) > 0
                  THEN [num |-> load.loaded * 100, den |-> Len(keys)]
                  ELSE [num |-> 100, den |-> 1],
   current |-> [name |-> entryName, resource |-> resource]]

\* an updateProgress that reports the number of entries of the registry
\* that are loaded once the completing entry is marked
ProgressEvent_RegistryCount(load, entryName, resource) ==
  LET count == Cardinality({i \in 1..Len(keys) :
                 heap[resources[keys[i]]].loaded \/ keys[i] = entryName})
  IN [total |-> load.total,
      loaded |-> count,
      percentage |-> IF load.total > 0
                     THEN [num |-> count * 100, den |-> load.total]
                     ELSE [num |-> 100, den |-> 1],
      current |-> [name |-> entryName, resource |-> resource]]

\* resources.ts:152-162: the argument onProgress is called with
ProgressEvent(load, entryName, resource) ==
  [total |-> load.total,
   loaded |-> load.loaded,
   percentage |-> IF load.total > 0
                  THEN [num |-> load.loaded * 100, den |-> load.total]
                  ELSE [num |-> 100, den |-> 1],
   current |-> [name |-> entryName, resource |-> resource]]

\* a completion that stores the resource without setting the loaded flag
MarkLoaded_ResourceOnly(entry, resource) ==
  [entry EXCEPT !.resource = resource]

\* resources.ts:173-174
MarkLoaded(entry, resource) ==
  [entry EXCEPT !.resource = resource, !.loaded = TRUE]

\* resources.ts:178-180 for the load call `load`, task i, after emitLoaded
\* returned: count, report, finish the task
CountAndReport(load, i, entryName, resource) ==
  LET counted == [load EXCEPT !.loaded = @ + 1, !.order = Append(@, i)]
  IN IF counted.onProgress = "none"
     THEN AllAfterSuccess([counted EXCEPT !.tasks[i] = "ok"])
     ELSE LET reported == [counted EXCEPT !.progress =
                             Append(@, ProgressEvent(counted, entryName, resource))]
          IN IF counted.onProgress = "throws"
             THEN AllAfterFailure(
                    [reported EXCEPT !.tasks[i] = "callbackThrew"],
                    LoadFailure(heap[load.entries[i]], "callbackError"))
             ELSE AllAfterSuccess([reported EXCEPT !.tasks[i] = "ok"])

\* a continuation that looks the entry up by name when the decode
\* completes and writes the declaration the name is bound to by then
TaskResolve_WritesCurrent(L, i, resource) ==
  LET load == loads[L]
      entry == heap[load.entries[i]]
      id == resources[entry.name]
      emit == EmitLoaded(entry.name, resource)
  IN /\ load.tasks[i] = "inflight"
     /\ resource \in LoaderResults(SelectLoader(entry))
     /\ heap' = [heap EXCEPT ![id] = MarkLoaded(heap[id], resource)]
     /\ cbs' = emit.cbs
     /\ events' = emit.events
     /\ loads' = [loads EXCEPT ![L] =
          IF emit.threw
          THEN AllAfterFailure(
                 [load EXCEPT !.tasks[i] = "callbackThrew", !.order = Append(@, i)],
                 LoadFailure(entry, "callbackError"))
          ELSE CountAndReport(load, i, entry.name, resource)]
     /\ ret' = NoCall
     /\ UNCHANGED <<basePath, keys, resources>>

\* a continuation that fires the subscribers before it marks the entry:
\* a subscriber that throws leaves the entry unmarked
TaskResolve_EmitsFirst(L, i, resource) ==
  LET load == loads[L]
      id == load.entries[i]
      entry == heap[id]
      emit == EmitLoaded(entry.name, resource)
  IN /\ load.tasks[i] = "inflight"
     /\ resource \in LoaderResults(SelectLoader(entry))
     /\ heap' = IF emit.threw THEN heap
                ELSE [heap EXCEPT ![id] = MarkLoaded(entry, resource)]
     /\ cbs' = emit.cbs
     /\ events' = emit.events
     /\ loads' = [loads EXCEPT ![L] =
          IF emit.threw
          THEN AllAfterFailure(
                 [load EXCEPT !.tasks[i] = "callbackThrew", !.order = Append(@, i)],
                 LoadFailure(entry, "callbackError"))
          ELSE CountAndReport(load, i, entry.name, resource)]
     /\ ret' = NoCall
     /\ UNCHANGED <<basePath, keys, resources>>

\* a continuation that returns early once the call has been rejected
TaskResolve_StopsAfterRejection(L, i, resource) ==
  LET load == loads[L]
      id == load.entries[i]
      entry == heap[id]
      emit == EmitLoaded(entry.name, resource)
      stop == load.all = "rejected"
  IN /\ load.tasks[i] = "inflight"
     /\ resource \in LoaderResults(SelectLoader(entry))
     /\ heap' = IF stop THEN heap ELSE [heap EXCEPT ![id] = MarkLoaded(entry, resource)]
     /\ cbs' = IF stop THEN cbs ELSE emit.cbs
     /\ events' = IF stop THEN events ELSE emit.events
     /\ loads' = [loads EXCEPT ![L] =
          IF stop
          THEN [load EXCEPT !.tasks[i] = "ok", !.order = Append(@, i)]
          ELSE IF emit.threw
          THEN AllAfterFailure(
                 [load EXCEPT !.tasks[i] = "callbackThrew", !.order = Append(@, i)],
                 LoadFailure(entry, "callbackError"))
          ELSE CountAndReport(load, i, entry.name, resource)]
     /\ ret' = NoCall
     /\ UNCHANGED <<basePath, keys, resources>>

\* resources.ts:171-184, the continuation after `await loader.load(...)`
\* resolved with `resource`; it runs to its end without suspension
TaskResolve(L, i, resource) ==
  LET load == loads[L]
      id == load.entries[i]
      entry == heap[id]
      emit == EmitLoaded(entry.name, resource)
  IN /\ load.tasks[i] = "inflight"
     /\ resource \in LoaderResults(SelectLoader(entry))
     /\ heap' = [heap EXCEPT ![id] = MarkLoaded(entry, resource)]
     /\ cbs' = emit.cbs
     /\ events' = emit.events
     /\ loads' = [loads EXCEPT ![L] =
          IF emit.threw
          THEN AllAfterFailure(
                 [load EXCEPT !.tasks[i] = "callbackThrew", !.order = Append(@, i)],
                 LoadFailure(entry, "callbackError"))
          ELSE CountAndReport(load, i, entry.name, resource)]
     /\ ret' = NoCall
     /\ UNCHANGED <<basePath, keys, resources>>

\* a catch block that marks the entry loaded although its decode failed
TaskReject_MarksLoaded(L, i) ==
  LET load == loads[L]
      id == load.entries[i]
  IN /\ load.tasks[i] = "inflight"
     /\ heap' = [heap EXCEPT ![id].loaded = TRUE]
     /\ loads' = [loads EXCEPT ![L] =
          AllAfterFailure(
            [load EXCEPT !.tasks[i] = "decodeRejected", !.order = Append(@, i)],
            LoadFailure(heap[id], "decoderError"))]
     /\ ret' = NoCall
     /\ UNCHANGED <<basePath, keys, resources, events, cbs>>

\* a catch block that drops the declaration whose decode failed
TaskReject_DropsName(L, i) ==
  LET load == loads[L]
      id == load.entries[i]
      name == heap[id].name
      dropped == name \in DOMAIN resources /\ resources[name] = id
  IN /\ load.tasks[i] = "inflight"
     /\ keys' = IF dropped THEN SelectSeq(keys, LAMBDA n : n # name) ELSE keys
     /\ resources' = IF dropped
                      THEN [n \in DOMAIN resources \ {name} |-> resources[n]]
                      ELSE resources
     /\ loads' = [loads EXCEPT ![L] =
          AllAfterFailure(
            [load EXCEPT !.tasks[i] = "decodeRejected", !.order = Append(@, i)],
            LoadFailure(heap[id], "decoderError"))]
     /\ ret' = NoCall
     /\ UNCHANGED <<basePath, heap, events, cbs>>

\* a catch block that resets the entry whose decode failed
TaskReject_ResetsEntry(L, i) ==
  LET load == loads[L]
      id == load.entries[i]
  IN /\ load.tasks[i] = "inflight"
     /\ heap' = [heap EXCEPT ![id].loaded = FALSE, ![id].resource = "undefined"]
     /\ loads' = [loads EXCEPT ![L] =
          AllAfterFailure(
            [load EXCEPT !.tasks[i] = "decodeRejected", !.order = Append(@, i)],
            LoadFailure(heap[id], "decoderError"))]
     /\ ret' = NoCall
     /\ UNCHANGED <<basePath, keys, resources, events, cbs>>

\* a catch block that rejects the promises waiting for the name of the
\* entry whose decode failed, and forgets their subscriptions
TaskReject_RejectsWaiting(L, i) ==
  LET load == loads[L]
      entry == heap[load.entries[i]]
      name == entry.name
      waiting == IF name \in DOMAIN events
                 THEN {events[name][k] : k \in 1..Len(events[name])}
                 ELSE {}
  IN /\ load.tasks[i] = "inflight"
     /\ cbs' = [c \in DOMAIN cbs |->
                  IF c \in waiting /\ cbs[c].kind = "lazy" /\ cbs[c].state = "pending"
                  THEN [cbs[c] EXCEPT !.state = "rejected"]
                  ELSE cbs[c]]
     /\ events' = [n \in DOMAIN events \ {name} |-> events[n]]
     /\ loads' = [loads EXCEPT ![L] =
          AllAfterFailure(
            [load EXCEPT !.tasks[i] = "decodeRejected", !.order = Append(@, i)],
            LoadFailure(entry, "decoderError"))]
     /\ ret' = NoCall
     /\ UNCHANGED <<basePath, keys, resources, heap>>

\* resources.ts:181-184, after `await loader.load(...)` rejected
TaskReject(L, i) ==
  LET load == loads[L]
      entry == heap[load.entries[i]]
  IN /\ load.tasks[i] = "inflight"
     /\ loads' = [loads EXCEPT ![L] =
          AllAfterFailure(
            [load EXCEPT !.tasks[i] = "decodeRejected", !.order = Append(@, i)],
            LoadFailure(entry, "decoderError"))]
     /\ ret' = NoCall
     /\ UNCHANGED <<basePath, keys, resources, heap, events, cbs>>

\* a load() that waits for every task before it settles, as with
\* Promise.allSettled
Settle_WaitsForAll(L) ==
  /\ loads[L].status = "pending"
  /\ loads[L].all # "pending"
  /\ \A i \in DOMAIN loads[L].tasks : loads[L].tasks[i] # "inflight"
  /\ loads' = [loads EXCEPT ![L].status = loads[L].all]
  /\ ret' = NoCall
  /\ UNCHANGED <<basePath, keys, resources, heap, events, cbs>>

\* resources.ts:164,187: the promise load() returned settles as Promise.all did
Settle(L) ==
  /\ loads[L].status = "pending"
  /\ loads[L].all # "pending"
  /\ loads' = [loads EXCEPT ![L].status = loads[L].all]
  /\ ret' = NoCall
  /\ UNCHANGED <<basePath, keys, resources, heap, events, cbs>>

\* an isLoaded that asks for some loaded entry instead of every entry
isLoaded_Some == \E i \in 1..Len(keys) : heap[resources[keys[i]]].loaded

\* resources.ts:192-194
isLoaded == \A i \in 1..Len(keys) : heap[resources[keys[i]]].loaded

\* a progress snapshot that reports 0 percent for an empty registry
progress_ZeroWhenEmpty ==
  LET entries == Snapshot
      total == Len(entries)
      loaded == Cardinality({i \in 1..total : heap[entries[i]].loaded})
  IN [total |-> total,
      loaded |-> loaded,
      percentage |-> IF total > 0 THEN [num |-> loaded * 100, den |-> total]
                     ELSE [num |-> 0, den |-> 1]]

\* resources.ts:199-209
progress ==
  LET entries == Snapshot
      total == Len(entries)
      loaded == Cardinality({i \in 1..total : heap[entries[i]].loaded})
  IN [total |-> total,
      loaded |-> loaded,
      percentage |-> IF total > 0 THEN [num |-> loaded * 100, den |-> total]
                     ELSE [num |-> 100, den |-> 1]]

-----------------------------------------------------------------------------
(* Specification                                                           *)

\* The caps that keep the model finite: a step is taken only while the
\* number of entry objects, callbacks and load() calls stays within them.
Within(maxEntries, maxCallbacks, maxLoads) ==
  /\ Len(heap') <= maxEntries
  /\ Len(cbs') <= maxCallbacks
  /\ Len(loads') <= maxLoads

Resolve ==
  \E L \in DOMAIN loads : \E i \in DOMAIN loads[L].tasks :
    \E resource \in LoaderResults(SelectLoader(heap[loads[L].entries[i]])) :
      TaskResolve(L, i, resource)

Reject == \E L \in DOMAIN loads : \E i \in DOMAIN loads[L].tasks : TaskReject(L, i)

Next ==
  \/ \E in \in AddInputs : Add(in[1], in[2]) /\ Within(MaxEntries, MaxCallbacks, MaxLoads)
  \/ \E name \in LookupNames : Get(name)
  \/ \E name \in LookupNames : GetLazy(name) /\ Within(MaxEntries, MaxCallbacks, MaxLoads)
  \/ \E name \in ListenNames, throws \in BOOLEAN :
       OnLoaded(name, throws) /\ Within(MaxEntries, MaxCallbacks, MaxLoads)
  \/ \E onProgress \in ProgressCallbacks :
       Load(onProgress) /\ Within(MaxEntries, MaxCallbacks, MaxLoads)
  \/ Resolve
  \/ Reject
  \/ \E L \in DOMAIN loads : Settle(L)

Spec == Init /\ [][Next]_vars

\* The declaration specification: add over a wide set of filenames, get,
\* and load() calls whose decodes reject.
NextDeclare ==
  \/ \E filename \in DeclareFilenames, engine \in Engines :
       Add(filename, engine) /\ Within(MaxEntries, 0, MaxLoads)
  \/ \E name \in LookupNames : Get(name)
  \/ Load("none") /\ Within(MaxEntries, 0, MaxLoads)
  \/ Reject
  \/ \E L \in DOMAIN loads : Settle(L)

SpecDeclare == Init /\ [][NextDeclare]_vars

\* The re-load specification: repeated and overlapping load() calls over
\* one or two declarations of few files, with up to MaxListeners callbacks
\* waiting under one name.
NextReload ==
  \/ \E in \in ReloadInputs : Add(in[1], in[2]) /\ Within(MaxEntries, MaxListeners, MaxReloads)
  \/ \E name \in ListenNames : Get(name)
  \/ \E name \in ListenNames : GetLazy(name) /\ Within(MaxEntries, MaxListeners, MaxReloads)
  \/ \E name \in ListenNames, throws \in BOOLEAN :
       OnLoaded(name, throws) /\ Within(MaxEntries, MaxListeners, MaxReloads)
  \/ Load("none") /\ Within(MaxEntries, MaxListeners, MaxReloads)
  \/ Resolve
  \/ Reject
  \/ \E L \in DOMAIN loads : Settle(L)

SpecReload == Init /\ [][NextReload]_vars

\* The overlap specification: repeated and overlapping load() calls over
\* two names, without subscribers.
NextOverlap ==
  \/ \E in \in OverlapInputs : Add(in[1], in[2]) /\ Within(MaxEntries, 0, MaxReloads)
  \/ \E name \in OverlapNames : Get(name)
  \/ \E onProgress \in OverlapCallbacks :
       Load(onProgress) /\ Within(MaxEntries, 0, MaxReloads)
  \/ Resolve
  \/ Reject
  \/ \E L \in DOMAIN loads : Settle(L)

SpecOverlap == Init /\ [][NextOverlap]_vars

\* The overlap specification with the scheduling the event loop gives: the
\* continuation of `await Promise.all(...)` is a queued microtask, so a
\* load() call whose Promise.all has settled does settle.  Nothing is
\* assumed about the decoders: a decode may stay in flight for ever.
FairOverlap ==
  SpecOverlap /\ \A L \in 1..MaxReloads : WF_vars(L \in DOMAIN loads /\ Settle(L))

-----------------------------------------------------------------------------
(* Vocabulary of the properties                                            *)

\* task states in which the decoder resolved
DecodeResolved == {"ok", "callbackThrew"}

\* task states in which the task's promise rejected
TaskFailed == {"decodeRejected", "callbackThrew", "noLoader"}

\* some decode of the entry object `id` has resolved
DecodeSucceeded(id) ==
  \E L \in DOMAIN loads : \E i \in DOMAIN loads[L].tasks :
    loads[L].entries[i] = id /\ loads[L].tasks[i] \in DecodeResolved

\* some decode of the entry object `id` is in flight
DecodeInFlight(id) ==
  \E L \in DOMAIN loads : \E i \in DOMAIN loads[L].tasks :
    loads[L].entries[i] = id /\ loads[L].tasks[i] = "inflight"

\* the step is the settlement of load call L
Settles(L) ==
  /\ L \in DOMAIN loads
  /\ loads[L].status = "pending"
  /\ loads'[L].status # "pending"

\* the step is a get or getLazy call with argument ret'.arg
Calls(op) == ret' # ret /\ ret'.op = op

-----------------------------------------------------------------------------
(* C1: whenever a load() call resolves, isLoaded is true and get(n)        *)
(* returns a resource for every name n declared at that moment.  Stated    *)
(* here for the names whose current declaration the call snapshotted, the  *)
(* case the claim shares with the specification's sentence; the claim also *)
(* covers names added while the call was in flight, which the call does    *)
(* not load.  Fails on the code: a decoded value that is falsy (JSON null, *)
(* 0, false, "") leaves get throwing NotLoaded (C17).                      *)
C1_LoadResolvedAllUsable ==
  [][\A L \in DOMAIN loads :
       (Settles(L) /\ loads'[L].status = "fulfilled")
         => \A i \in DOMAIN loads[L].entries :
              LET id == loads[L].entries[i]
                  n == heap[id].name
              IN resources'[n] = id
                   => /\ heap'[id].loaded
                      /\ GetResult(n)'.kind = "returned"]_vars

-----------------------------------------------------------------------------
(* C2: get(n) for a declared name n whose current declaration has not been *)
(* loaded (no decode of it has succeeded since it was declared, a load()   *)
(* in flight included) throws "Resource '<n>' not loaded yet. Call load()  *)
(* first." and changes no declaration and no subscription.                 *)
C2_GetUnloadedThrows ==
  [][(/\ Calls("get")
      /\ ret'.arg \in DOMAIN resources
      /\ ~DecodeSucceeded(resources[ret'.arg]))
       => /\ ret' = NotLoaded("get", ret'.arg)
          /\ UNCHANGED <<keys, resources, heap, events, cbs>>]_vars

\* get threw NotLoaded for a declared name while its decode was in flight
C2_Witness ==
  /\ ret.op = "get"
  /\ ret.kind = "NotLoaded"
  /\ ret.arg \in DOMAIN resources
  /\ DecodeInFlight(resources[ret.arg])
  /\ ~DecodeSucceeded(resources[ret.arg])

-----------------------------------------------------------------------------
(* C3: get(n) and getLazy(n) for a name n that was never declared throw    *)
(* "Resource '<n>' not found. Did you add it to the resources?"            *)
(* synchronously, register no subscription and change no declaration.      *)
(* Fails on the code for a name the plain object this.resources inherits   *)
(* (toString, constructor, ...): the lookup finds the inherited member.    *)
C3_UndeclaredThrowsNotFound ==
  [][(/\ Calls("get") \/ Calls("getLazy")
      /\ ret'.arg \notin DOMAIN resources)
       => /\ ret'.kind = "NotFound"
          /\ ret'.detail = ret'.arg
          /\ UNCHANGED <<keys, resources, heap, events, cbs>>]_vars

-----------------------------------------------------------------------------
(* C4: add(filename) whose extension, the text after the last '.', has no  *)
(* kind mapping throws "Unsupported file extension: .<ext>" with the       *)
(* literal extension and leaves the registry unchanged.                    *)
(* Fails on the code for an extension that the plain object extensionMap   *)
(* inherits (toString, constructor, ...): the lookup is truthy, add does   *)
(* not throw and stores a declaration.                                     *)

\* the text after the last '.', the whole text when there is none
AfterLastDot(s) ==
  CHOOSE e \in {SubSeq(s, k, Len(s)) : k \in 1..(Len(s) + 1)} :
    /\ \A j \in 1..Len(e) : e[j] # Dot
    /\ Len(e) = Len(s) \/ s[Len(s) - Len(e)] = Dot

C4_UnsupportedExtensionThrows ==
  [][(Calls("add") /\ AfterLastDot(ret'.arg) \notin DOMAIN extensionMap)
       => /\ ret'.kind = "UnsupportedExtension"
          /\ ret'.detail = AfterLastDot(ret'.arg)
          /\ UNCHANGED <<keys, resources, heap, events, cbs, loads>>]_vars

-----------------------------------------------------------------------------
(* C5: after a load() call rejects, every entry whose decode in that call  *)
(* succeeded is loaded and get(name) returns its resource.  Stated for the *)
(* entries that are still the declaration of their name.                   *)
(* Fails on the code: an entry decoded to a falsy value is loaded, yet get *)
(* throws NotLoaded (C17).                                                 *)
C5_RejectedLoadKeepsDecoded ==
  \A L \in DOMAIN loads :
    loads[L].status = "rejected"
      => \A i \in DOMAIN loads[L].tasks :
           LET id == loads[L].entries[i]
               n == heap[id].name
           IN loads[L].tasks[i] \in DecodeResolved
                => /\ heap[id].loaded
                   /\ resources[n] = id
                        => GetResult(n) = Returned("get", n, heap[id].resource)

-----------------------------------------------------------------------------
(* C6                                                                      *)

\* the tasks of load call L in completion order, the failed ones only
FailedInOrder(L) == SelectSeq(loads[L].order, LAMBDA i : loads[L].tasks[i] \in TaskFailed)

\* the original error of a failed task
CauseOf(state) ==
  CASE state = "decodeRejected" -> "decoderError"
    [] state = "callbackThrew" -> "callbackError"
    [] state = "noLoader" -> "TypeError"

(* C6 as claimed: load() rejects exactly when at least one decode it       *)
(* issued rejects and resolves when all succeed; the rejection is the load *)
(* failure of the first decode to fail in completion order with the        *)
(* decoder's error as cause.  Violated: a subscriber or onProgress that    *)
(* throws rejects load() although every decode resolved.                   *)
C6_RejectsIffDecodeRejects ==
  \A L \in DOMAIN loads :
    LET load == loads[L]
        rejected == SelectSeq(load.order, LAMBDA i : load.tasks[i] = "decodeRejected")
    IN /\ load.status = "fulfilled" => \A i \in DOMAIN load.tasks : load.tasks[i] = "ok"
       /\ load.status = "rejected"
            => /\ rejected # <<>>
               /\ load.error = [filename |-> heap[load.entries[rejected[1]]].filename,
                                cause |-> "decoderError"]

(* C6 amended: load() rejects exactly when at least one of its per-entry   *)
(* tasks fails (its decode rejects, or a subscriber or onProgress throws   *)
(* while its successful decode is completed, or it has no decoder) and     *)
(* resolves when all succeed; the rejection is the load failure "Failed to *)
(* load resource '<filename>'" of the first task to fail in completion     *)
(* order, carrying that task's original error as cause.                    *)
C6_RejectsIffTaskFails ==
  \A L \in DOMAIN loads :
    LET load == loads[L]
        failed == FailedInOrder(L)
    IN /\ load.status = "fulfilled" => \A i \in DOMAIN load.tasks : load.tasks[i] = "ok"
       /\ load.status = "rejected" => failed # <<>>
       /\ failed # <<>>
            => /\ load.all = "rejected"
               /\ load.error = [filename |-> heap[load.entries[failed[1]]].filename,
                                cause |-> CauseOf(load.tasks[failed[1]])]
       /\ (\A i \in DOMAIN load.tasks : load.tasks[i] = "ok") => load.all = "fulfilled"

\* a load() rejected after two of its tasks failed, for different reasons
C6_Witness ==
  \E L \in DOMAIN loads :
    /\ loads[L].status = "rejected"
    /\ Len(FailedInOrder(L)) = 2
    /\ loads[L].tasks[FailedInOrder(L)[1]] # loads[L].tasks[FailedInOrder(L)[2]]

-----------------------------------------------------------------------------
(* C7: a failed decode does not mark its entry loaded: the entry's loaded  *)
(* flag and resource are what they were before the decode completed, so a  *)
(* never loaded entry is still reported NotLoaded by get.                  *)
C7_FailedDecodeLeavesEntry ==
  [][\A L \in DOMAIN loads : \A i \in DOMAIN loads[L].tasks :
       (loads[L].tasks[i] = "inflight" /\ loads'[L].tasks[i] = "decodeRejected")
         => LET id == loads[L].entries[i]
                n == heap[id].name
            IN /\ heap'[id] = heap[id]
               /\ (~heap[id].loaded /\ resources[n] = id)
                    => GetResult(n)' = NotLoaded("get", n)]_vars

\* get reports NotLoaded for an entry whose only decode has failed
C7_Witness ==
  /\ ret.op = "get"
  /\ ret.kind = "NotLoaded"
  /\ \E L \in DOMAIN loads : \E i \in DOMAIN loads[L].tasks :
       /\ loads[L].tasks[i] = "decodeRejected"
       /\ heap[loads[L].entries[i]].name = ret.arg
       /\ resources[ret.arg] = loads[L].entries[i]
       /\ ~heap[loads[L].entries[i]].loaded

-----------------------------------------------------------------------------
(* C8                                                                      *)

\* the step completes the successful decode of task i of load call L, which
\* a decode failure had already rejected
ResolvesAfterRejection(L, i) ==
  /\ loads[L].all = "rejected"
  /\ loads[L].error.cause = "decoderError"
  /\ loads[L].tasks[i] = "inflight"
  /\ loads'[L].tasks[i] \in DecodeResolved

\* the callbacks pending under a name, in registration order
Pending(name) == IF name \in DOMAIN events THEN events[name] ELSE <<>>

\* the positions in a callback list up to and including the first callback
\* that throws; all of them when none throws
UpToFirstThrow(list) ==
  {k \in 1..Len(list) : \A j \in 1..(k - 1) : ~cbs[list[j]].throws}

-----------------------------------------------------------------------------
(* C9: a getLazy(n) promise obtained while n is declared but not loaded    *)
(* stays pending until a decode of n succeeds, resolves at that            *)
(* completion, and its value is the resource instance a subsequent get(n)  *)
(* returns.  Stated for the promise's settlement: it settles only in a     *)
(* step that completes a successful decode of n, and get(n) then returns   *)
(* the value it settled with.                                              *)
(* Fails on the code: a falsy decoded value resolves the promise while     *)
(* get(n) throws NotLoaded (C17); and the decode of a declaration that was *)
(* replaced by add resolves the promise while the current declaration of n *)
(* is unloaded (C14).                                                      *)
C9_LazyResolvesWithGetValue ==
  [][\A c \in DOMAIN cbs :
       (/\ cbs[c].kind = "lazy"
        /\ cbs[c].unloaded
        /\ cbs[c].state = "pending"
        /\ cbs'[c].state = "resolved")
         => /\ \E L \in DOMAIN loads : \E i \in DOMAIN loads[L].tasks :
                 /\ loads[L].tasks[i] = "inflight"
                 /\ loads'[L].tasks[i] \in DecodeResolved
                 /\ heap[loads[L].entries[i]].name = cbs[c].name
            /\ GetResult(cbs[c].name)' = Returned("get", cbs[c].name, cbs'[c].value)]_vars

-----------------------------------------------------------------------------
(* C10: getLazy(n) for a name n that is already loaded returns a promise   *)
(* already resolved with the entry's current resource, invokes no decoder  *)
(* and registers no subscription under n.                                  *)
(* Fails on the code: for an entry loaded with a falsy value the shortcut  *)
(* `entry.loaded && entry.resource` is false, so getLazy registers a       *)
(* subscription and returns a pending promise (C17).                       *)
C10_LazyLoadedResolvesAtOnce ==
  [][(/\ Calls("getLazy")
      /\ ret'.arg \in DOMAIN resources
      /\ heap[resources[ret'.arg]].loaded)
       => /\ ret' = ResolvedPromise(ret'.arg, heap[resources[ret'.arg]].resource)
          /\ UNCHANGED <<keys, resources, heap, events, cbs, loads>>]_vars

-----------------------------------------------------------------------------
\* the step completes the decode of task i of load call L successfully
Completes(L, i) ==
  /\ loads[L].tasks[i] = "inflight"
  /\ loads'[L].tasks[i] \in DecodeResolved

\* positions in the list of `name` of the promises that getLazy made while
\* the name was declared and not loaded, and that are still pending
WaitingLazy(name) ==
  {k \in 1..Len(Pending(name)) :
     LET cb == cbs[Pending(name)[k]]
     IN cb.kind = "lazy" /\ cb.unloaded /\ cb.state = "pending"}

\* the promise at position k of the list of `name` is resolved in the step
\* with the resource stored on entry object id, after those before it
ResolvedInTurn(name, k, id) ==
  LET list == Pending(name)
  IN /\ cbs'[list[k]].state = "resolved"
     /\ cbs'[list[k]].value = heap'[id].resource
     /\ \A j \in WaitingLazy(name) : j < k => cbs'[list[j]].at < cbs'[list[k]].at

\* every pending getLazy call makes a promise of its own
OwnPromise ==
  Calls("getLazy") /\ ret'.kind = "pendingPromise"
    => /\ ret'.cb \notin DOMAIN cbs
       /\ ret'.cb \in DOMAIN cbs'
       /\ cbs'[ret'.cb].state = "pending"

-----------------------------------------------------------------------------
(* C12: each subscriber registered under a name is invoked at most once    *)
(* over the whole run, because the name's list is deleted in the step that *)
(* fires it.  Stated for the subscribers that return normally.  Fails on   *)
(* the code: when a later subscriber of the same list throws, emitLoaded   *)
(* leaves before events.delete(name), and the next decode completion of    *)
(* the name invokes the earlier subscribers again.                         *)
C12_InvokedAtMostOnce ==
  \A c \in DOMAIN cbs : ~cbs[c].throws => cbs[c].calls <= 1

-----------------------------------------------------------------------------
\* the state is the one a successful add(filename) has just returned in
Declared(filename) == ret.op = "add" /\ ret.kind = "returned" /\ ret.arg = filename

\* the entry objects that were bound to `name` before the current one
Replaced(name) ==
  {id \in 1..Len(heap) : heap[id].name = name /\ resources[name] # id}

(* C13: add(filename) for a name that is already declared replaces the     *)
(* declaration: names holds the name exactly once, the new declaration is  *)
(* unloaded and has no resource, and get(name) throws NotLoaded until a    *)
(* decode of the new declaration has succeeded, even if the previous       *)
(* declaration was loaded.                                                 *)
C13_RedeclareReplaces ==
  /\ \A n \in DOMAIN resources :
       Cardinality({i \in 1..Len(names) : names[i] = n}) = 1
  /\ Declared(ret.arg) =>
       LET name == NameOf(ret.arg)
       IN /\ name \in DOMAIN resources
          /\ resources[name] = Len(heap)
          /\ heap[Len(heap)].filename = ret.arg
          /\ ~heap[Len(heap)].loaded
          /\ heap[Len(heap)].resource = "undefined"
  /\ \A n \in DOMAIN resources :
       Replaced(n) # {} /\ ~DecodeSucceeded(resources[n])
         => GetResult(n) = NotLoaded("get", n)

\* a name whose previous declaration was loaded has just been re-declared
C13_Witness ==
  /\ Declared(ret.arg)
  /\ \E id \in Replaced(NameOf(ret.arg)) : heap[id].loaded /\ Truthy(heap[id].resource)
  /\ GetResult(NameOf(ret.arg)) = NotLoaded("get", NameOf(ret.arg))

-----------------------------------------------------------------------------
(* C14: when a name is re-declared while a decode of its previous          *)
(* declaration is in flight, the completion of the discarded declaration's *)
(* decode does not fire the subscriptions registered for the name before   *)
(* the overwrite.  Fails on the code: the subscriptions are kept by name   *)
(* and the completing task fires emitLoaded(entry.name, ...), whatever     *)
(* object the name is bound to by then.                                    *)
C14_DiscardedDecodeFiresNothing ==
  [][\A L \in DOMAIN loads : \A i \in DOMAIN loads[L].tasks :
       LET id == loads[L].entries[i]
           name == heap[id].name
       IN Completes(L, i) /\ resources[name] # id
            => \A c \in DOMAIN cbs :
                 cbs[c].name = name /\ cbs[c].decl = id
                   => cbs'[c].calls = cbs[c].calls]_vars

-----------------------------------------------------------------------------
\* the step is a load() call
LoadCalled == Len(loads') = Len(loads) + 1

(* C15: every load() call issues exactly one decode for each declaration   *)
(* present when it is called, loaded or not, and a successful re-decode    *)
(* stores the fresh result on the entry.  Fails on the code for a          *)
(* declaration whose type is not a kind: no decoder is found for it and    *)
(* its task fails without a decode having been issued.                     *)
C15_OneDecodePerDeclaration ==
  [][/\ LoadCalled =>
          LET load == loads'[Len(loads')]
          IN /\ load.entries = Snapshot
             /\ \A i \in DOMAIN load.tasks : load.tasks[i] = "inflight"
     /\ \A L \in DOMAIN loads : \A i \in DOMAIN loads[L].tasks :
          Completes(L, i) =>
            LET id == loads[L].entries[i]
            IN /\ heap'[id].loaded
               /\ heap'[id].resource \in LoaderResults(SelectLoader(heap[id]))]_vars

-----------------------------------------------------------------------------
(* C16: once a declaration's resource has been set by a successful decode, *)
(* no later operation clears it or replaces it with a different value.     *)
(* Fails on the code as stated: load() decodes loaded declarations again,  *)
(* and the result of a successful re-decode replaces the resource.         *)
C16_ResourceNeverReplaced ==
  [][\A id \in DOMAIN heap :
       heap[id].loaded /\ Truthy(heap[id].resource)
         => heap'[id].resource = heap[id].resource]_vars

(* C16, amended: a declaration that is loaded stays loaded; its resource   *)
(* changes only in a step that completes a later decode of the same        *)
(* declaration successfully, and then becomes that decode's result; no     *)
(* call (add, get, getLazy, onLoaded, load) and no failed decode changes   *)
(* it.                                                                     *)
C16_ResourceReplacedOnlyByRedecode ==
  [][\A id \in DOMAIN heap :
       heap[id].loaded =>
         /\ heap'[id].loaded
         /\ heap'[id].resource # heap[id].resource =>
              /\ ret'.op = "none"
              /\ \E L \in DOMAIN loads : \E i \in DOMAIN loads[L].tasks :
                   /\ loads[L].entries[i] = id
                   /\ Completes(L, i)
                   /\ heap'[id].resource \in LoaderResults(SelectLoader(heap[id]))]_vars

\* a loaded declaration has been decoded successfully a second time and
\* one of its decodes has failed
C16_Witness ==
  \E id \in DOMAIN heap :
    /\ heap[id].loaded
    /\ \E L1 \in DOMAIN loads : \E L2 \in DOMAIN loads :
         /\ L1 # L2
         /\ \E i \in DOMAIN loads[L1].tasks :
              loads[L1].entries[i] = id /\ loads[L1].tasks[i] \in DecodeResolved
         /\ \E i \in DOMAIN loads[L2].tasks :
              loads[L2].entries[i] = id /\ loads[L2].tasks[i] \in DecodeResolved

-----------------------------------------------------------------------------
(* C17: in every reachable state a declaration with loaded = true has its  *)
(* resource present, whatever value the decoder resolved with, so that     *)
(* get(name) returns the resource and getLazy(name) resolves at once.      *)
(* Fails on the code: get and getLazy test the resource for truthiness, so *)
(* a loaded declaration whose decoded value is JSON null, 0, false or ""   *)
(* is treated as not loaded.                                               *)
C17_LoadedMeansUsable ==
  \A n \in DOMAIN resources :
    LET entry == heap[resources[n]]
    IN entry.loaded =>
         /\ entry.resource \in LoaderResults(SelectLoader(entry))
         /\ GetResult(n) = Returned("get", n, entry.resource)
         /\ LazyShortcut(Lookup(n))

-----------------------------------------------------------------------------
(* C18: isLoaded is true exactly when every currently declared entry is    *)
(* loaded, that is when a decode of each current declaration has           *)
(* succeeded; it is true for an empty registry and false right after a new *)
(* or re-declared entry has been added.                                    *)
C18_IsLoadedIffAllLoaded ==
  /\ isLoaded <=> \A n \in DOMAIN resources : heap[resources[n]].loaded
  /\ isLoaded <=> \A n \in DOMAIN resources : DecodeSucceeded(resources[n])
  /\ DOMAIN resources = {} => isLoaded
  /\ Declared(ret.arg) => ~isLoaded

\* a registry whose entries were all loaded has just had a name added or
\* re-declared
C18_Witness ==
  /\ Declared(ret.arg)
  /\ ~isLoaded
  /\ Cardinality(DOMAIN resources) + Cardinality(Replaced(NameOf(ret.arg))) = 2
  /\ \A id \in 1..(Len(heap) - 1) : heap[id].loaded

-----------------------------------------------------------------------------
\* the fraction p is the number n
IsNumber(p, n) == p.den > 0 /\ p.num = n * p.den

(* C19: the progress snapshot has total = the number of declared names,    *)
(* loaded = the number of declared entries that are currently loaded, with *)
(* 0 <= loaded <= total, and percentage = loaded / total * 100, or 100     *)
(* when total = 0.                                                         *)
C19_ProgressSnapshot ==
  LET declared == DOMAIN resources
      nowLoaded == {n \in declared : heap[resources[n]].loaded}
  IN /\ progress.total = Cardinality(declared)
     /\ progress.loaded = Cardinality(nowLoaded)
     /\ 0 <= progress.loaded /\ progress.loaded <= progress.total
     /\ progress.percentage.den > 0
     /\ IF progress.total = 0
        THEN IsNumber(progress.percentage, 100)
        ELSE progress.percentage.num * progress.total
               = progress.loaded * 100 * progress.percentage.den

\* one of two declared entries is loaded: the snapshot reports 50 percent
C19_Witness ==
  /\ progress.total = 2
  /\ progress.loaded = 1
  /\ IsNumber(progress.percentage, 50)

-----------------------------------------------------------------------------
\* some load() call has not settled yet
Running == \E L \in DOMAIN loads : loads[L].status = "pending"

\* the fraction p is at most the fraction q
AtMost(p, q) == p.num * q.den <= q.num * p.den

(* C20 as claimed: during a single load() run the percentage of successive *)
(* registry progress snapshots never decreases, and once the run has       *)
(* settled the percentage is exactly 100.  Stated here for the runs during *)
(* which no name is added or re-declared (an add made during a run lowers  *)
(* the percentage).  Violated: a run settles by rejecting while the entry  *)
(* whose decode failed is not loaded.                                      *)
C20_PercentageRisesTo100 ==
  [][/\ Running /\ Snapshot' = Snapshot
          => AtMost(progress.percentage, progress'.percentage)
     /\ \A L \in DOMAIN loads :
          Settles(L) /\ loads[L].entries = Snapshot
            => IsNumber(progress'.percentage, 100)]_vars

(* C20, amended: during a load() run in which no name is added or          *)
(* re-declared, the percentage of successive registry progress snapshots   *)
(* never decreases, and when such a run resolves the percentage is exactly *)
(* 100.                                                                    *)
C20_PercentageRisesUnlessAdded ==
  [][/\ Running /\ Snapshot' = Snapshot
          => AtMost(progress.percentage, progress'.percentage)
     /\ \A L \in DOMAIN loads :
          Settles(L) /\ loads'[L].status = "fulfilled" /\ loads[L].entries = Snapshot
            => IsNumber(progress'.percentage, 100)]_vars

\* a load() call over two declarations has resolved with no add since it
\* was called, and the snapshot reports 100 percent
C20_Witness ==
  \E L \in DOMAIN loads :
    /\ loads[L].status = "fulfilled"
    /\ loads[L].total = 2
    /\ loads[L].entries = Snapshot
    /\ IsNumber(progress.percentage, 100)

-----------------------------------------------------------------------------
\* the event onProgress is expected to receive when task i of load call L
\* completes in the step
ExpectedEvent(L, i) ==
  LET load == loads[L]
      id == load.entries[i]
      count == Len(load.progress) + 1
  IN [total |-> Len(load.entries),
      loaded |-> count,
      percentage |-> [num |-> count * 100, den |-> Len(load.entries)],
      current |-> [name |-> heap[id].name, resource |-> heap'[id].resource]]

\* some subscriber waiting under `name` throws
SomeSubscriberThrows(name) ==
  \E k \in 1..Len(Pending(name)) : cbs[Pending(name)[k]].throws

\* when every task of load call L is done after the step, the last event
\* reported loaded = total
LastEventIsTotal(L) ==
  LET load == loads'[L]
  IN load.total > 0 /\ (\A i \in DOMAIN load.tasks : load.tasks[i] = "ok")
       => /\ Len(load.progress) = load.total
          /\ load.progress[Len(load.progress)].loaded = load.total

-----------------------------------------------------------------------------
\* the names of the registry, as a set
NameSet == {names[i] : i \in 1..Len(names)}

-----------------------------------------------------------------------------
(* C23: add classifies a filename by the text after its last '.',          *)
(* case-sensitively: glb and gltf give kind model; png, jpg, jpeg and webp *)
(* give texture; hdr gives environment; json gives json; the declaration's *)
(* kind is that value, and every other extension is rejected with a        *)
(* message containing the literal extension.  Fails on the code for an     *)
(* extension that is a key inherited by the plain object extensionMap      *)
(* (C4): add('a.toString') is accepted, with a function as kind.           *)
C23_ClassifiesByExtension ==
  LET ext == AfterLastDot(ret.arg)
      model == {<<"g", "l", "b">>, <<"g", "l", "t", "f">>}
      texture == {<<"p", "n", "g">>, <<"j", "p", "g">>,
                  <<"j", "p", "e", "g">>, <<"w", "e", "b", "p">>}
      environment == {<<"h", "d", "r">>}
      json == {<<"j", "s", "o", "n">>}
      kind == IF ext \in model THEN "model"
              ELSE IF ext \in texture THEN "texture"
              ELSE IF ext \in environment THEN "environment"
              ELSE "json"
  IN ret.op = "add" =>
       IF ext \in model \cup texture \cup environment \cup json
       THEN /\ ret.kind = "returned"
            /\ heap[Len(heap)].filename = ret.arg
            /\ heap[Len(heap)].type = kind
       ELSE /\ ret.kind = "UnsupportedExtension"
            /\ ret.detail = ext

-----------------------------------------------------------------------------
\* the text before the last '.', the whole text when there is none
BeforeLastDot(s) ==
  IF \A j \in 1..Len(s) : s[j] # Dot THEN s
  ELSE SubSeq(s, 1, Len(s) - Len(AfterLastDot(s)) - 1)

(* C24: for every accepted filename the declared name is the filename with *)
(* its final '.extension' removed, and the whole filename when it contains *)
(* no '.'; this holds for filenames with several dots and for filenames    *)
(* that start with a '.'.  Fails on the code for a filename whose only     *)
(* '.' is its first character: the test is dotIndex > 0, so add('.png')    *)
(* declares the name '.png' and not the empty name.                        *)
C24_NameIsFilenameWithoutExtension ==
  Declared(ret.arg) =>
    /\ heap[Len(heap)].filename = ret.arg
    /\ heap[Len(heap)].name = BeforeLastDot(ret.arg)
    /\ BeforeLastDot(ret.arg) \in NameSet

-----------------------------------------------------------------------------
(* C25: the set of declared names never shrinks and changes only through   *)
(* add: load, get, getLazy, onLoaded and the completions of decodes leave  *)
(* it unchanged, and a successful add changes it only by adding the name   *)
(* it declares, or not at all when that name is already declared.          *)
C25_NamesGrowOnlyByAdd ==
  [][/\ NameSet \subseteq NameSet'
     /\ Len(names') = Cardinality(NameSet')
     /\ NameSet' # NameSet =>
          /\ ret'.op = "add" /\ ret'.kind = "returned"
          /\ heap'[Len(heap')].filename = ret'.arg
          /\ heap'[Len(heap')].name \notin NameSet
          /\ NameSet' = NameSet \cup {heap'[Len(heap')].name}
     /\ Len(heap') > Len(heap) /\ heap'[Len(heap')].name \in NameSet
          => NameSet' = NameSet]_vars

\* two names are declared, one of them re-declared or failed to decode,
\* after load, get and getLazy calls
C25_Witness ==
  /\ Cardinality(NameSet) = 2
  /\ loads # <<>>
  /\ \E L \in DOMAIN loads : \E i \in DOMAIN loads[L].tasks :
       loads[L].tasks[i] = "decodeRejected"
  /\ cbs # <<>>

-----------------------------------------------------------------------------
\* the tasks in flight that will write the entry object id
InFlightWriters(id) ==
  {t \in {<<L, i>> : L \in DOMAIN loads, i \in 1..MaxEntries} :
     /\ t[2] \in DOMAIN loads[t[1]].tasks
     /\ loads[t[1]].entries[t[2]] = id
     /\ loads[t[1]].tasks[t[2]] = "inflight"}

(* C26 as claimed: for every declaration at most one in-flight decode task *)
(* can set its loaded flag and resource, across any sequence of load()     *)
(* calls, overlapping ones included.  Violated: a load() called while the  *)
(* decodes of an earlier load() are in flight issues a second task for the *)
(* same entry objects.                                                     *)
C26_OneWriterPerDeclaration ==
  \A id \in DOMAIN heap : Cardinality(InFlightWriters(id)) <= 1

(* C26, amended: within one load() call no two tasks write to the same     *)
(* declaration, and an entry is written only by a task issued for that     *)
(* entry; in-flight tasks that write the same declaration belong to        *)
(* different, overlapping load() calls.                                    *)
C26_OneWriterPerDeclarationPerCall ==
  /\ \A L \in DOMAIN loads :
       \A i \in DOMAIN loads[L].tasks : \A j \in DOMAIN loads[L].tasks :
         i # j => loads[L].entries[i] # loads[L].entries[j]
  /\ \A id \in DOMAIN heap :
       /\ heap[id].loaded <=> DecodeSucceeded(id)
       /\ heap[id].resource # "undefined" => DecodeSucceeded(id)
       /\ \A t \in InFlightWriters(id) : \A u \in InFlightWriters(id) :
            t # u => t[1] # u[1]

\* two overlapping load() calls over two declarations each have a task in
\* flight for the same declaration
C26_Witness ==
  \E id \in DOMAIN heap :
    /\ Cardinality(InFlightWriters(id)) = 2
    /\ \A t \in InFlightWriters(id) : Len(loads[t[1]].entries) = 2

-----------------------------------------------------------------------------
\* the tasks of load call L have all succeeded (none, for an empty call)
AllTasksOk(L) == \A i \in DOMAIN loads[L].tasks : loads[L].tasks[i] = "ok"

\* some task of load call L has failed
SomeTaskFailed(L) == \E i \in DOMAIN loads[L].tasks : loads[L].tasks[i] \in TaskFailed

(* C27: a load() call settles once its decodes allow it to: it resolves    *)
(* only after all of its decodes have resolved, it rejects as soon as the  *)
(* first task has failed, without waiting for the decodes still in flight, *)
(* and a load() on an empty registry resolves without any decode; so if    *)
(* every decode settles, the call settles.                                 *)
C27_LoadSettles ==
  /\ [](\A L \in DOMAIN loads :
          /\ loads[L].status = "fulfilled" => AllTasksOk(L)
          /\ loads[L].status = "rejected" => SomeTaskFailed(L)
          /\ loads[L].entries = <<>> => loads[L].status \in {"pending", "fulfilled"})
  /\ \A L \in 1..MaxReloads :
       (L \in DOMAIN loads /\ AllTasksOk(L))
         ~> (L \in DOMAIN loads /\ loads[L].status = "fulfilled")
  /\ \A L \in 1..MaxReloads :
       (L \in DOMAIN loads /\ SomeTaskFailed(L))
         ~> (L \in DOMAIN loads /\ loads[L].status = "rejected")

\* a load() call has rejected while one of its decodes is still in flight,
\* and a load() call on an empty registry has resolved
C27_Witness ==
  /\ \E L \in DOMAIN loads :
       /\ loads[L].status = "rejected"
       /\ \E i \in DOMAIN loads[L].tasks : loads[L].tasks[i] = "inflight"
  /\ \E L \in DOMAIN loads :
       loads[L].entries = <<>> /\ loads[L].status = "fulfilled"

-----------------------------------------------------------------------------
\* the entry object id was created by an add made after load call L
AddedAfter(L, id) == \A i \in DOMAIN loads[L].entries : loads[L].entries[i] < id

\* load call L works on the declarations present when it was called: its
\* entries and the total it reports never change
WorksOnSnapshot ==
  /\ LoadCalled =>
       /\ loads'[Len(loads')].entries = Snapshot
       /\ loads'[Len(loads')].total = Len(Snapshot)
  /\ \A L \in DOMAIN loads :
       /\ loads'[L].entries = loads[L].entries
       /\ loads'[L].total = loads[L].total
       /\ Len(loads'[L].tasks) = loads[L].total
       /\ \A k \in 1..Len(loads'[L].progress) :
            loads'[L].progress[k].total = loads[L].total

(* C28 as claimed: load() works on a snapshot of the declarations taken    *)
(* when it is called: a name added or re-declared while the call is in     *)
(* flight is not decoded by that call, does not change the total it        *)
(* reports, and its new declaration is still unloaded when the call        *)
(* settles.  Stated here as what the last part requires of every state     *)
(* before the settlement, the loaded flag of an entry never being cleared: *)
(* while the call has a decode in flight, a declaration added after the    *)
(* call was made is unloaded.  Violated: a second load() made after the    *)
(* add decodes the new declaration while the first call is in flight.      *)
C28_AddedStaysUnloadedUntilSettled ==
  \A L \in DOMAIN loads :
    (\E i \in DOMAIN loads[L].tasks : loads[L].tasks[i] = "inflight")
      => \A id \in DOMAIN heap : AddedAfter(L, id) => ~heap[id].loaded

(* C28, amended: a name added or re-declared while the call is in flight   *)
(* is not decoded by that call and does not change the total it reports;   *)
(* the completions of the call write the snapshotted entries only, so the  *)
(* new declaration is unloaded until a load() call made after the add has  *)
(* decoded it.                                                             *)
C28_SnapshotAtCall ==
  [][/\ WorksOnSnapshot
     /\ \A L \in DOMAIN loads : \A i \in DOMAIN loads[L].tasks :
          Completes(L, i) =>
            \A id \in DOMAIN heap : id # loads[L].entries[i] => heap'[id] = heap[id]
     /\ \A id \in DOMAIN heap' :
          heap'[id].loaded =>
            \E L \in DOMAIN loads' :
              /\ ~AddedAfter(L, id)'
              /\ \E i \in DOMAIN loads'[L].tasks :
                   loads'[L].entries[i] = id /\ loads'[L].tasks[i] \in DecodeResolved]_vars

\* a load() call over one declaration has resolved after a second name was
\* added during the call: the call reported total = 1 and the new
\* declaration is unloaded
C28_Witness ==
  \E L \in DOMAIN loads :
    /\ loads[L].status = "fulfilled"
    /\ loads[L].total = 1
    /\ Len(loads[L].progress) = 1
    /\ loads[L].progress[1].total = 1
    /\ Cardinality(NameSet) = 2
    /\ \E id \in DOMAIN heap : AddedAfter(L, id) /\ ~heap[id].loaded

-----------------------------------------------------------------------------
\* b without its trailing '/' characters is s
StrippedOf(b, s) ==
  /\ Len(s) <= Len(b)
  /\ SubSeq(b, 1, Len(s)) = s
  /\ \A k \in (Len(s) + 1)..Len(b) : b[k] = Slash
  /\ s = <<>> \/ s[Len(s)] # Slash

(* C29: each decode issued by load() for an entry uses the decoder table   *)
(* of the entry's backend (three selects the alternate table, anything     *)
(* else the default table), the decoder of the entry's kind, and the path  *)
(* fixed at declaration: the base path with all trailing '/' stripped,     *)
(* then '/', then the filename; no operation changes an existing           *)
(* declaration's kind, backend or path.                                    *)
C29_DecoderAndPath ==
  /\ [](/\ \E b \in BasePaths : StrippedOf(b, basePath)
        /\ \A id \in DOMAIN heap :
             heap[id].path = basePath \o <<Slash>> \o heap[id].filename
        /\ \A L \in DOMAIN loads : \A i \in DOMAIN loads[L].tasks :
             LET entry == heap[loads[L].entries[i]]
                 table == IF entry.engine = "three" THEN threeLoaders ELSE loaders
             IN loads[L].tasks[i] # "noLoader"
                  => /\ entry.type \in DOMAIN table
                     /\ loads[L].requests[i].loader = table[entry.type]
                     /\ loads[L].requests[i].path = entry.path)
  /\ [][\A id \in DOMAIN heap :
          /\ heap'[id].type = heap[id].type
          /\ heap'[id].engine = heap[id].engine
          /\ heap'[id].path = heap[id].path]_vars

\* a decode has been issued for a texture declared for three and for one
\* declared for pixi
C29_Witness ==
  \E L \in DOMAIN loads :
    /\ \E i \in DOMAIN loads[L].tasks :
         /\ loads[L].requests[i].loader = "ThreeTextureLoader"
         /\ heap[loads[L].entries[i]].engine = "three"
    /\ \E i \in DOMAIN loads[L].tasks :
         /\ loads[L].requests[i].loader = "TextureLoader"
         /\ heap[loads[L].entries[i]].engine = "pixi"

-----------------------------------------------------------------------------
\* the effects of the completion of task i of load call L, in the order of
\* the code: what a step that ends early has done is a prefix of them
CompletionInOrder(L, i) ==
  LET id == loads[L].entries[i]
      name == heap[id].name
      list == Pending(name)
      stored == heap'[id].resource
  IN \* 1. the entry is marked, whatever happens next
     /\ heap'[id].loaded
     /\ stored \in LoaderResults(SelectLoader(heap[id]))
     \* 2. the subscribers are called with the stored resource
     /\ \A k \in UpToFirstThrow(list) :
          /\ cbs'[list[k]].calls = cbs[list[k]].calls + 1
          /\ cbs[list[k]].kind = "lazy" /\ cbs[list[k]].state = "pending"
               => cbs'[list[k]].value = stored
     /\ IF SomeSubscriberThrows(name)
        THEN \* the step ends in 2: list kept, nothing counted or reported
             /\ events' = events
             /\ loads'[L].loaded = loads[L].loaded
             /\ loads'[L].progress = loads[L].progress
             /\ loads'[L].tasks[i] = "callbackThrew"
        ELSE \* 2. list cleared, 3. counted, 4. reported with the new count
             /\ name \notin DOMAIN events'
             /\ loads'[L].loaded = loads[L].loaded + 1
             /\ loads[L].onProgress # "none" =>
                  LET event == loads'[L].progress[Len(loads'[L].progress)]
                  IN /\ Len(loads'[L].progress) = Len(loads[L].progress) + 1
                     /\ event.loaded = loads[L].loaded + 1
                     /\ event.current = [name |-> name, resource |-> stored]
             /\ loads'[L].tasks[i] =
                  IF loads[L].onProgress = "throws" THEN "callbackThrew" ELSE "ok"
     \* no other task takes a step in between
     /\ \A L2 \in DOMAIN loads : \A j \in DOMAIN loads[L2].tasks :
          <<L2, j>> # <<L, i>> => loads'[L2].tasks[j] = loads[L2].tasks[j]
     /\ \A id2 \in DOMAIN heap : id2 # id => heap'[id2] = heap[id2]

(* C30: within one successful decode completion the steps happen in a      *)
(* fixed order with no other task interleaved: the entry is marked loaded  *)
(* with its resource stored, then the name's subscribers are fired and the *)
(* list cleared, then the call's loaded count is incremented, then         *)
(* onProgress is invoked; so a subscriber or onProgress that runs (or      *)
(* throws) finds the completing entry loaded, holding the delivered        *)
(* resource.                                                               *)
C30_CompletionOrder ==
  [][\A L \in DOMAIN loads : \A i \in DOMAIN loads[L].tasks :
       Completes(L, i) => CompletionInOrder(L, i)]_vars

\* a subscriber threw during a completion: the entry is loaded, and
\* nothing was counted or reported to the onProgress of the call
C30_Witness ==
  \E L \in DOMAIN loads : \E i \in DOMAIN loads[L].tasks :
    /\ loads[L].tasks[i] = "callbackThrew"
    /\ heap[loads[L].entries[i]].loaded
    /\ loads[L].onProgress = "returns"
    /\ loads[L].loaded = 0
    /\ loads[L].progress = <<>>
    /\ \E c \in DOMAIN cbs : cbs[c].throws /\ cbs[c].calls = 1

-----------------------------------------------------------------------------
\* the step fails the decode of task i of load call L
FailsDecode(L, i) ==
  /\ loads[L].tasks[i] = "inflight"
  /\ loads'[L].tasks[i] = "decodeRejected"

\* some decode of a declaration of `name` has failed
HasFailed(name) ==
  \E L \in DOMAIN loads : \E i \in DOMAIN loads[L].tasks :
    heap[loads[L].entries[i]].name = name /\ loads[L].tasks[i] = "decodeRejected"

\* positions in the list of `name` of the getLazy promises still pending
PendingLazy(name) ==
  {k \in 1..Len(Pending(name)) :
     cbs[Pending(name)[k]].kind = "lazy" /\ cbs[Pending(name)[k]].state = "pending"}

\* a getLazy promise is pending or resolved, never rejected; a failed
\* decode of a name leaves the name's list and the promises in it as they
\* were
FailureLeavesLazyWaiting ==
  /\ \A c \in DOMAIN cbs' :
       cbs'[c].kind = "lazy" => cbs'[c].state \in {"pending", "resolved"}
  /\ \A L \in DOMAIN loads : \A i \in DOMAIN loads[L].tasks :
       FailsDecode(L, i) =>
         LET name == heap[loads[L].entries[i]].name
         IN /\ Pending(name)' = Pending(name)
            /\ \A k \in PendingLazy(name) :
                 cbs'[Pending(name)[k]] = cbs[Pending(name)[k]]

-----------------------------------------------------------------------------
(* C32: if a subscriber or the onProgress callback throws while an entry's *)
(* successful decode is being completed, the entry nevertheless stays      *)
(* loaded with its resource stored and usable via get, and the load() call *)
(* rejects with the load failure naming that entry's filename with the     *)
(* thrown error as cause.  Stated for get while the name is still bound to *)
(* that entry, and for the rejection when the task is the first of its     *)
(* call to fail (a call rejects with its first failure only).  Fails on    *)
(* the code: a decoded value that is falsy (JSON null, 0, false, "") is    *)
(* stored and the entry is loaded, but get throws NotLoaded (C17).         *)
C32_ThrowKeepsEntryUsable ==
  \A L \in DOMAIN loads : \A i \in DOMAIN loads[L].tasks :
    loads[L].tasks[i] = "callbackThrew" =>
      LET id == loads[L].entries[i]
          n == heap[id].name
      IN /\ heap[id].loaded
         /\ heap[id].resource \in LoaderResults(SelectLoader(heap[id]))
         /\ resources[n] = id => GetResult(n) = Returned("get", n, heap[id].resource)
         /\ loads[L].all = "rejected"
         /\ FailedInOrder(L)[1] = i
              => loads[L].error = LoadFailure(heap[id], "callbackError")

-----------------------------------------------------------------------------
\* the number of decodes of load call L that have completed successfully
OwnCompleted(L) ==
  Cardinality({i \in DOMAIN loads[L].tasks : loads[L].tasks[i] \in DecodeResolved})

\* the number of tasks of load call L that have finished successfully
OwnFinished(L) ==
  Cardinality({i \in DOMAIN loads[L].tasks : loads[L].tasks[i] = "ok"})

\* the number of entries of the registry that are loaded
LoadedNow == Cardinality({i \in 1..Len(keys) : heap[resources[keys[i]]].loaded})

(* C33: the loaded count reported to onProgress is private to each load()  *)
(* call and starts from 0 at every call: it counts only that call's own    *)
(* completed decodes, independently of how many entries were already       *)
(* loaded before the call and of any other load() call running at the same *)
(* time.  The counter of a call counts every task of the call that has     *)
(* finished successfully and no decode but the call's own completed ones,  *)
(* one event is reported per count, and the k-th event of a call reports   *)
(* k.                                                                      *)
C33_LoadedCountPerCall ==
  \A L \in DOMAIN loads :
    /\ OwnFinished(L) <= loads[L].loaded
    /\ loads[L].loaded <= OwnCompleted(L)
    /\ Len(loads[L].progress) =
         (IF loads[L].onProgress = "none" THEN 0 ELSE loads[L].loaded)
    /\ \A k \in 1..Len(loads[L].progress) : loads[L].progress[k].loaded = k

\* two overlapping load() calls over the same two entries: the first has
\* reported one completion, the second two, and the second's first report
\* was 1 although the registry's loaded count differs from both counters
C33_Witness ==
  \E L1 \in DOMAIN loads : \E L2 \in DOMAIN loads :
    /\ L1 < L2
    /\ L1 \notin loads[L2].after
    /\ loads[L1].entries = loads[L2].entries
    /\ Len(loads[L1].progress) = 1
    /\ Len(loads[L2].progress) = 2
    /\ loads[L1].loaded = 1
    /\ loads[L2].loaded = 2
    /\ loads[L2].progress[1].loaded = 1
    /\ LoadedNow = 2

-----------------------------------------------------------------------------
\* the step completes a decode of the entry object `id` successfully
CompletesDecodeOf(id) ==
  \E L \in DOMAIN loads : \E i \in DOMAIN loads[L].tasks :
    loads[L].entries[i] = id /\ Completes(L, i)

\* the step is a successful add that declares `name`
Redeclares(name) ==
  /\ ret'.op = "add"
  /\ ret'.kind = "returned"
  /\ NameOf(ret'.arg) = name
  /\ resources'[name] = Len(heap')
  /\ Len(heap') = Len(heap) + 1

(* C34: starting a new load() never makes a loaded entry unavailable:      *)
(* between the start of a re-load and the completion of the entry's new    *)
(* decode, and after that decode fails, the entry stays loaded and         *)
(* get(name) keeps returning the previously stored resource; only          *)
(* re-declaring the name with add turns a loaded name back into an         *)
(* unloaded one.  A load() call changes no entry; a loaded entry stays     *)
(* loaded; while the name is not re-declared, every step but the           *)
(* successful completion of a decode of the entry leaves its resource and  *)
(* the outcome of get(name) as they were; and a step after which a loaded  *)
(* name is unloaded is an add of that name.                                *)
C34_ReloadKeepsAvailable ==
  [][/\ LoadCalled => UNCHANGED <<keys, resources, heap>>
     /\ \A n \in DOMAIN resources :
          LET id == resources[n]
          IN heap[id].loaded =>
               /\ heap'[id].loaded
               /\ ~heap'[resources'[n]].loaded => Redeclares(n)
               /\ (resources'[n] = id /\ ~CompletesDecodeOf(id))
                    => /\ heap'[id].resource = heap[id].resource
                       /\ GetResult(n)' = GetResult(n)]_vars

\* get has returned the resource stored by an earlier load() call after
\* the entry's decode in a later load() call failed
C34_Witness ==
  /\ ret.op = "get"
  /\ ret.kind = "returned"
  /\ ret.arg \in DOMAIN resources
  /\ ret.val = heap[resources[ret.arg]].resource
  /\ \E L1 \in DOMAIN loads : \E L2 \in DOMAIN loads :
       /\ L1 \in loads[L2].after
       /\ \E i \in DOMAIN loads[L1].tasks :
            loads[L1].entries[i] = resources[ret.arg] /\ loads[L1].tasks[i] = "ok"
       /\ \E j \in DOMAIN loads[L2].tasks :
            /\ loads[L2].entries[j] = resources[ret.arg]
            /\ loads[L2].tasks[j] = "decodeRejected"

====
